---- MODULE Spec2Model ----
(***************************************************************************)
(* Threaded comments of the blog backend: the comment store (Mongoose      *)
(* model Comment), the REST comment controller and the socket.io comment   *)
(* handler.  Every handler is an async function: each `await` on the store *)
(* is one atomic step, and handlers of different requests interleave       *)
(* between their awaits.                                                   *)
(*                                                                         *)
(* Document.save() of an existing document sends only the changes tracked  *)
(* on the in-memory document: `arr.push(x)` is sent as an atomic $push,    *)
(* `doc.arr = other` as a $set of the whole array.  The schema keeps the   *)
(* default version key __v (CommentSchema options do not disable it): a    *)
(* $set of an array is sent with `__v == the version read` in the filter   *)
(* and fails with a VersionError when no document matches; a $push is sent *)
(* without that filter; both increment __v.                                *)
(***************************************************************************)
EXTENDS Integers, Sequences, FiniteSets, TLC

\* ---------------------------------------------------------------- bounds
MaxComments == 2          \* comment ids ever generated
MaxVersion == 3           \* votes are started on a comment while __v < MaxVersion
MaxInbox == 1             \* events emitted to one connection and not yet received
MaxTree == 4              \* comments in a client's tree when an event is sent to it

\* ---------------------------------------------------------------- universe
Procs == {"h1", "h2"}                 \* request handlers running concurrently
Users == {"ann", "bob"}               \* authenticated user ids
Role(u) == IF u = "bob" THEN "admin" ELSE "user"
Blogs == {"b1"}                       \* blog posts that exist
BlogIds == Blogs \cup {"bX"}          \* well-formed blog ids; bX names no blog
CommentIds == 1..MaxComments
Null == 0                             \* parentComment: null
VoteTypes == {"upvote", "downvote", "sidevote"}   \* voteType as sent by a client
Conns == {"s1", "s2"}                 \* clients, each with at most one socket
NoConn == "none"

\* ----------------------------------------------------------------- tokens
\* what a handshake carries in auth.token: nothing, a string that
\* jwt.verify rejects (forged or expired), or a token signed by
\* generateAccessToken(userId, role)
NoToken == [id |-> "none", role |-> "none", signed |-> FALSE]
BadToken == [id |-> "bob", role |-> "admin", signed |-> FALSE]
generateAccessToken(userId, role) == [id |-> userId, role |-> role, signed |-> TRUE]
Tokens == {NoToken, BadToken} \cup {generateAccessToken(u, Role(u)) : u \in Users}

\* jwt.verify: the decoded payload, or an exception
Throws == [id |-> "none", role |-> "none"]
verifyAccessToken(token) ==
  IF token.signed THEN [id |-> token.id, role |-> token.role] ELSE Throws

\* ---------------------------------------------------------------- content
\* a content string: len characters from its first to its last non-blank
\* character, pad blanks around them, and text to tell strings apart
MinLength == 1
MaxLength == 1000
Hi == [text |-> "hi", len |-> 2, pad |-> 0]
Yo == [text |-> "yo", len |-> MaxLength, pad |-> 1]
Contents ==
  { Hi, Yo,
    [text |-> "yo", len |-> MaxLength + 1, pad |-> 0],
    [text |-> "", len |-> 0, pad |-> 2] }

\* String.prototype.length
Length(c) == c.len + c.pad

\* the schema setter trim: true
Trim(c) == [c EXCEPT !.pad = 0]

\* the validators without maxlength
ValidContentNoMax(c) == Length(c) >= MinLength

\* the schema validators of content run by save(): required (a non-empty
\* string), minlength 1, maxlength 1000
ValidContent(c) ==
  /\ Length(c) > 0
  /\ Length(c) >= MinLength
  /\ Length(c) <= MaxLength

VARIABLES
  store,      \* the comments collection: comment id -> document
  nextId,     \* the next _id a new Comment gets
  pc,         \* per handler: the request being served and where it stands
  lastVote,   \* history: per (user, comment) the last vote written, if it ran alone
  sock,       \* per client: its socket on the server (state, socket.user, rooms)
  inbox,      \* per client: events emitted to its socket, not yet received
  origin,     \* per handler: the socket whose event it is serving, if any
  comments,   \* per client: the comments state of CommentSection
  response,   \* per client: the GET /comments/blog/:id response on its way
  client,     \* per client: CommentSection's socket state and what it buffers
  handled     \* history: per client the event its reconciler handled last

conns == <<sock, inbox, comments, response, handled>>

vars == <<store, nextId, pc, lastVote, sock, inbox, origin, comments, response,
          client, handled>>

\* ---------------------------------------------------------------- documents
NoDoc == [upvotes |-> <<>>, downvotes |-> <<>>, v |-> 0]

NoOps == [pushUp |-> FALSE, setUp |-> FALSE, pushDown |-> FALSE, setDown |-> FALSE]

NoVote == [vtype |-> "none", from |-> "none"]

Idle == [phase |-> "idle", op |-> "none", via |-> "rest", user |-> "ann",
         id |-> Null, blog |-> "b1", parent |-> Null, vtype |-> "upvote",
         content |-> Hi,
         doc |-> NoDoc, ops |-> NoOps, status |-> "none", event |-> "none",
         score |-> 0, wrote |-> 0, seen |-> "none", prev |-> NoVote,
         changed |-> FALSE]

Exists(s, id) == id \in DOMAIN s

\* new Comment({content, author, blog, parentComment}) with the schema defaults
NewComment(author, blog, parent, content) ==
  [author |-> author, blog |-> blog, parentComment |-> parent,
   content |-> Trim(content), isEdited |-> FALSE,
   upvotes |-> <<>>, downvotes |-> <<>>, v |-> 0]

Insert(s, id, c) == [x \in DOMAIN s \cup {id} |-> IF x = id THEN c ELSE s[x]]

Remove(s, ids) == [x \in DOMAIN s \ ids |-> s[x]]

\* Array.prototype.includes / filter on the id lists
Includes(list, u) == \E i \in 1..Len(list) : list[i] = u

Without(list, u) == SelectSeq(list, LAMBDA x : x # u)

\* virtual voteScore
VoteScore(c) == Len(c.upvotes) - Len(c.downvotes)

\* the vote of user u recorded in a ledger (a stored or an in-memory document)
PairState(c, u) ==
  IF Includes(c.upvotes, u)
    THEN (IF Includes(c.downvotes, u) THEN "both" ELSE "upvoted")
    ELSE (IF Includes(c.downvotes, u) THEN "downvoted" ELSE "none")

\* a client before its socket is created, or after disconnect
NoSocket == [state |-> "closed", user |-> Throws, token |-> NoToken, rooms |-> {}]

NoResponse == [sent |-> FALSE, comments |-> <<>>]

\* CommentSection as it renders first: useState<Socket | null>(null), with
\* the auth check of AuthContext pending
NoClient ==
  [isAuthenticated |-> FALSE, socket |-> FALSE, sendBuffer |-> <<>>, loading |-> TRUE]

\* CommentSection of a signed-in user after its socket effect ran and its
\* fetch of the comments ended
SignedIn ==
  [isAuthenticated |-> TRUE, socket |-> TRUE, sendBuffer |-> <<>>, loading |-> FALSE]

\* no event handled yet
NoEvent ==
  [type |-> "none", id |-> Null, parentId |-> Null, content |-> Hi,
   isEdited |-> FALSE, voteScore |-> 0]

\* the clients are signed in and have the page open; no socket is
\* connected yet
InitConns ==
  /\ sock = [s \in Conns |-> NoSocket]
  /\ inbox = [s \in Conns |-> <<>>]
  /\ origin = [p \in Procs |-> NoConn]
  /\ comments = [s \in Conns |-> <<>>]
  /\ response = [s \in Conns |-> NoResponse]
  /\ client = [s \in Conns |-> SignedIn]
  /\ handled = [s \in Conns |-> NoEvent]

Init ==
  /\ store = << >>
  /\ nextId = 1
  /\ pc = [p \in Procs |-> Idle]
  /\ lastVote = [u \in Users |-> [c \in CommentIds |-> NoVote]]
  /\ InitConns

\* ------------------------------------------------------------ responding
\* the handler's last statement: res.status(..).json(..) on the REST path,
\* socket.emit('comment-error') or commentNamespace.to(room).emit(..) on the
\* socket path; pc[p].status and pc[p].event are what it sends
Finish(p, status, event) ==
  [pc[p] EXCEPT !.phase = "respond", !.status = status, !.event = event]

\* what a failure is reported as: the REST controller answers 404, 403, 400
\* with their own status; the socket handler sends comment-error to the
\* submitting socket only.  No failure is broadcast.
Fail(p, status) == Finish(p, status, "none")

\* the payload of the event a request ends with.  The comment of
\* comment-created and comment-updated is the handler's in-memory document
\* as toJSON gives it, virtual voteScore included
Payload(r) ==
  [type |-> r.event, id |-> r.id,
   parentId |-> IF r.event = "comment-created" THEN r.parent ELSE Null,
   content |-> IF r.event \in {"comment-created", "comment-updated"}
                 THEN Trim(r.content) ELSE Hi,
   isEdited |-> r.event = "comment-updated",
   voteScore |-> IF r.event = "comment-deleted" THEN 0 ELSE r.score]

CommentError ==
  [type |-> "comment-error", id |-> Null, parentId |-> Null, content |-> Hi,
   isEdited |-> FALSE, voteScore |-> 0]

\* socket.to(room).emit(..) in place of commentNamespace.to(room).emit(..):
\* a broadcast that leaves the sender out
RespondToOthers(p) ==
  /\ pc[p].phase = "respond"
  /\ inbox' = [s \in Conns |->
       IF pc[p].event # "none" /\ pc[p].blog \in sock[s].rooms /\ origin[p] # s
         THEN Append(inbox[s], Payload(pc[p]))
       ELSE IF pc[p].via = "socket" /\ pc[p].status # "ok" /\ origin[p] = s
         THEN Append(inbox[s], CommentError)
       ELSE inbox[s]]
  /\ origin' = [origin EXCEPT ![p] = NoConn]
  /\ pc' = [pc EXCEPT ![p] = Idle]
  /\ UNCHANGED <<store, nextId, lastVote, sock, comments, response, client, handled>>

\* commentNamespace.emit(..) in place of commentNamespace.to(room).emit(..):
\* a broadcast to every connected socket
RespondToAll(p) ==
  /\ pc[p].phase = "respond"
  /\ inbox' = [s \in Conns |->
       IF pc[p].event # "none" /\ sock[s].state = "open"
         THEN Append(inbox[s], Payload(pc[p]))
       ELSE IF pc[p].via = "socket" /\ pc[p].status # "ok" /\ origin[p] = s
         THEN Append(inbox[s], CommentError)
       ELSE inbox[s]]
  /\ origin' = [origin EXCEPT ![p] = NoConn]
  /\ pc' = [pc EXCEPT ![p] = Idle]
  /\ UNCHANGED <<store, nextId, lastVote, sock, comments, response, client, handled>>

\* commentNamespace.to(`blog:${blog}`).emit(..): to every socket in the room
\* when the emit runs, the sender's included when it is a member;
\* socket.emit('comment-error'): to the submitting socket only
Respond(p) ==
  /\ pc[p].phase = "respond"
  /\ inbox' = [s \in Conns |->
       IF pc[p].event # "none" /\ pc[p].blog \in sock[s].rooms
         THEN Append(inbox[s], Payload(pc[p]))
       ELSE IF pc[p].via = "socket" /\ pc[p].status # "ok" /\ origin[p] = s
         THEN Append(inbox[s], CommentError)
       ELSE inbox[s]]
  /\ origin' = [origin EXCEPT ![p] = NoConn]
  /\ pc' = [pc EXCEPT ![p] = Idle]
  /\ UNCHANGED <<store, nextId, lastVote, sock, comments, response, client, handled>>

\* ---------------------------------------------------------------- create
InFlightCreates == Cardinality({q \in Procs : pc[q].phase = "createSave"})

\* what REST createComment validates before it builds the comment:
\* Blog.findById(blogId), then Comment.findById(parentCommentId) when a
\* parent id is given
ValidateCreate(s, b, parent) ==
  IF b \notin Blogs THEN "notfound"
  ELSE IF parent # Null /\ ~Exists(s, parent) THEN "notfound"
  ELSE "ok"

\* REST createComment up to the parent lookup
createComment(p, u, b, parent, content) ==
  /\ pc[p].phase = "idle"
  /\ nextId + InFlightCreates <= MaxComments
  /\ LET req == [Idle EXCEPT !.op = "create", !.via = "rest", !.user = u,
                              !.blog = b, !.parent = parent, !.content = content]
         checked == ValidateCreate(store, b, parent)
     IN pc' = [pc EXCEPT ![p] =
                 IF checked # "ok"
                   THEN [req EXCEPT !.phase = "respond", !.status = checked]
                   ELSE [req EXCEPT !.phase = "createSave"]]
  /\ UNCHANGED <<store, nextId, lastVote>>
  /\ UNCHANGED <<conns, origin, client>>

\* REST createComment: new Comment(..).save(), populate, 201; save()
\* validates the document first and throws without inserting (500)
createCommentSave(p) ==
  /\ pc[p].phase = "createSave"
  /\ LET c == NewComment(pc[p].user, pc[p].blog, pc[p].parent, pc[p].content)
     IN IF ValidContent(c.content)
          THEN /\ store' = Insert(store, nextId, c)
               /\ nextId' = nextId + 1
               /\ pc' = [pc EXCEPT ![p] = [Finish(p, "ok", "none")
                                             EXCEPT !.id = nextId, !.changed = TRUE]]
          ELSE /\ pc' = [pc EXCEPT ![p] = Fail(p, "failed")]
               /\ UNCHANGED <<store, nextId>>
  /\ UNCHANGED lastVote
  /\ UNCHANGED <<conns, origin, client>>

\* socket 'new-comment': new Comment(..).save() with no lookup before it;
\* on success comment-created goes to room blog:<blogId>; a validation
\* error of save() is caught and reported as comment-error
newComment(p, u, b, parent, content) ==
  /\ pc[p].phase = "idle"
  /\ nextId + InFlightCreates <= MaxComments
  /\ LET c == NewComment(u, b, parent, content)
         req == [Idle EXCEPT !.op = "create", !.via = "socket", !.user = u,
                             !.blog = b, !.parent = parent, !.content = content,
                             !.phase = "respond"]
     IN IF ValidContent(c.content)
          THEN /\ store' = Insert(store, nextId, c)
               /\ nextId' = nextId + 1
               /\ pc' = [pc EXCEPT ![p] =
                           [req EXCEPT !.id = nextId, !.status = "ok",
                                       !.event = "comment-created",
                                       !.changed = TRUE]]
          ELSE /\ pc' = [pc EXCEPT ![p] = [req EXCEPT !.status = "failed"]]
               /\ UNCHANGED <<store, nextId>>
  /\ UNCHANGED lastVote
  /\ UNCHANGED conns

\* ------------------------------------------------------- update, delete
\* the check of update and delete, negated in the code:
\* comment.author.toString() !== userId && user.role !== 'admin'
AuthorizedAlways(c, u) == TRUE

Authorized(c, u) == c.author = u \/ Role(u) = "admin"

\* Comment.findById, then the author-or-admin check (both transports)
FindForUpdate(p, via, u, id, content) ==
  /\ pc[p].phase = "idle"
  /\ LET req == [Idle EXCEPT !.op = "update", !.via = via, !.user = u, !.id = id,
                              !.content = content]
     IN pc' = [pc EXCEPT ![p] =
                 IF ~Exists(store, id)
                   THEN [req EXCEPT !.phase = "respond", !.status = "notfound"]
                 ELSE IF ~Authorized(store[id], u)
                   THEN [req EXCEPT !.phase = "respond", !.status = "forbidden"]
                 ELSE [req EXCEPT !.phase = "updSave", !.blog = store[id].blog,
                                  !.score = VoteScore(store[id])]]
  /\ UNCHANGED <<store, nextId, lastVote>>
  /\ UNCHANGED conns

updateComment(p, u, id, content) == FindForUpdate(p, "rest", u, id, content) /\ UNCHANGED <<origin, client>>

updateCommentSocket(p, u, id, content) == FindForUpdate(p, "socket", u, id, content)

\* a save() that writes back the whole document as first read, vote lists
\* included
SaveEditOverwrites(stored, content) ==
  [stored EXCEPT !.content = Trim(content), !.isEdited = TRUE,
                 !.upvotes = <<>>, !.downvotes = <<>>]

\* the stored document after the update that save() sends for
\* comment.content = content; comment.isEdited = true; updatedAt = now:
\* a $set of these paths only; the content setter has trimmed the string
SaveEdit(stored, content) ==
  [stored EXCEPT !.content = Trim(content), !.isEdited = TRUE]

\* a save() that does not notice that its update matched no document
SaveUpdateUnnoticed(p) ==
  /\ pc[p].phase = "updSave"
  /\ IF ValidContent(Trim(pc[p].content))
       THEN /\ store' = IF Exists(store, pc[p].id)
                          THEN [store EXCEPT ![pc[p].id] = SaveEdit(@, pc[p].content)]
                          ELSE store
            /\ pc' = [pc EXCEPT ![p] =
                        [Finish(p, "ok", IF pc[p].via = "socket" THEN "comment-updated"
                                                                   ELSE "none")
                           EXCEPT !.changed = TRUE]]
       ELSE /\ pc' = [pc EXCEPT ![p] = Fail(p, "failed")]
            /\ UNCHANGED store
  /\ UNCHANGED <<nextId, lastVote>>
  /\ UNCHANGED <<conns, origin, client>>

\* comment.save() of an update: validation, then the update of the stored
\* document, which throws when the document is gone; then the response or
\* the comment-updated broadcast to room blog:<comment.blog>
SaveUpdate(p) ==
  /\ pc[p].phase = "updSave"
  /\ IF ValidContent(Trim(pc[p].content)) /\ Exists(store, pc[p].id)
       THEN /\ store' = [store EXCEPT ![pc[p].id] = SaveEdit(@, pc[p].content)]
            /\ pc' = [pc EXCEPT ![p] =
                        [Finish(p, "ok", IF pc[p].via = "socket" THEN "comment-updated"
                                                                   ELSE "none")
                           EXCEPT !.changed = TRUE]]
       ELSE /\ pc' = [pc EXCEPT ![p] = Fail(p, "failed")]
            /\ UNCHANGED store
  /\ UNCHANGED <<nextId, lastVote>>
  /\ UNCHANGED <<conns, origin, client>>

\* Comment.findById, then the author-or-admin check (both transports)
FindForDelete(p, via, u, id) ==
  /\ pc[p].phase = "idle"
  /\ LET req == [Idle EXCEPT !.op = "delete", !.via = via, !.user = u, !.id = id]
     IN pc' = [pc EXCEPT ![p] =
                 IF ~Exists(store, id)
                   THEN [req EXCEPT !.phase = "respond", !.status = "notfound"]
                 ELSE IF ~Authorized(store[id], u)
                   THEN [req EXCEPT !.phase = "respond", !.status = "forbidden"]
                 ELSE [req EXCEPT !.phase = "delReplies", !.blog = store[id].blog,
                                !.parent = store[id].parentComment]]
  /\ UNCHANGED <<store, nextId, lastVote>>
  /\ UNCHANGED conns

deleteComment(p, u, id) == FindForDelete(p, "rest", u, id) /\ UNCHANGED <<origin, client>>

deleteCommentSocket(p, u, id) == FindForDelete(p, "socket", u, id)

\* Comment.deleteMany({ parentComment: id })
DeleteReplies(s, id) ==
  Remove(s, {x \in DOMAIN s : s[x].parentComment = id})

deleteMany(p) ==
  /\ pc[p].phase = "delReplies"
  /\ store' = DeleteReplies(store, pc[p].id)
  /\ pc' = [pc EXCEPT ![p].phase = "delSelf", ![p].changed = (store' # store)]
  /\ UNCHANGED <<nextId, lastVote>>
  /\ UNCHANGED <<conns, origin, client>>

\* Comment.findByIdAndDelete(id), then the 200 response or the
\* comment-deleted broadcast to room blog:<comment.blog>
findByIdAndDelete(p) ==
  /\ pc[p].phase = "delSelf"
  /\ store' = Remove(store, {pc[p].id})
  /\ pc' = [pc EXCEPT ![p] =
              [Finish(p, "ok", IF pc[p].via = "socket" THEN "comment-deleted" ELSE "none")
                 EXCEPT !.changed = @ \/ Exists(store, pc[p].id)]]
  /\ UNCHANGED <<nextId, lastVote>>
  /\ UNCHANGED <<conns, origin, client>>

\* ------------------------------------------------------------------ vote
\* the toggle with a slip: a switched vote is not taken off the other list
ApplyVoteKeepsOther(doc, u, t) ==
  LET hasUpvoted == Includes(doc.upvotes, u)
      hasDownvoted == Includes(doc.downvotes, u)
  IN IF t = "upvote"
       THEN IF hasUpvoted
              THEN [doc |-> [doc EXCEPT !.upvotes = Without(doc.upvotes, u)],
                    ops |-> [NoOps EXCEPT !.setUp = TRUE]]
              ELSE [doc |-> [doc EXCEPT !.upvotes = Append(doc.upvotes, u)],
                    ops |-> [NoOps EXCEPT !.pushUp = TRUE]]
       ELSE IF hasDownvoted
              THEN [doc |-> [doc EXCEPT !.downvotes = Without(doc.downvotes, u)],
                    ops |-> [NoOps EXCEPT !.setDown = TRUE]]
              ELSE [doc |-> [doc EXCEPT !.downvotes = Append(doc.downvotes, u)],
                    ops |-> [NoOps EXCEPT !.pushDown = TRUE]]

\* the toggle with a slip: a repeated vote is added again instead of removed
ApplyVoteNoToggle(doc, u, t) ==
  LET hasUpvoted == Includes(doc.upvotes, u)
      hasDownvoted == Includes(doc.downvotes, u)
  IN IF t = "upvote"
       THEN [doc |-> [doc EXCEPT !.upvotes = Append(doc.upvotes, u),
                                 !.downvotes = IF hasDownvoted
                                                 THEN Without(doc.downvotes, u)
                                                 ELSE doc.downvotes],
             ops |-> [NoOps EXCEPT !.pushUp = TRUE, !.setDown = hasDownvoted]]
       ELSE [doc |-> [doc EXCEPT !.downvotes = Append(doc.downvotes, u),
                                 !.upvotes = IF hasUpvoted
                                               THEN Without(doc.upvotes, u)
                                               ELSE doc.upvotes],
             ops |-> [NoOps EXCEPT !.pushDown = TRUE, !.setUp = hasUpvoted]]

\* the toggle applied to the in-memory document that findById returned;
\* ops records how each list was changed: push (arr.push) or set (arr = ..)
ApplyVote(doc, u, t) ==
  LET hasUpvoted == Includes(doc.upvotes, u)
      hasDownvoted == Includes(doc.downvotes, u)
  IN IF t = "upvote"
       THEN IF hasUpvoted
              THEN [doc |-> [doc EXCEPT !.upvotes = Without(doc.upvotes, u)],
                    ops |-> [NoOps EXCEPT !.setUp = TRUE]]
              ELSE [doc |-> [doc EXCEPT !.upvotes = Append(doc.upvotes, u),
                                        !.downvotes = IF hasDownvoted
                                                        THEN Without(doc.downvotes, u)
                                                        ELSE doc.downvotes],
                    ops |-> [NoOps EXCEPT !.pushUp = TRUE, !.setDown = hasDownvoted]]
       ELSE IF hasDownvoted
              THEN [doc |-> [doc EXCEPT !.downvotes = Without(doc.downvotes, u)],
                    ops |-> [NoOps EXCEPT !.setDown = TRUE]]
              ELSE [doc |-> [doc EXCEPT !.downvotes = Append(doc.downvotes, u),
                                        !.upvotes = IF hasUpvoted
                                                      THEN Without(doc.upvotes, u)
                                                      ELSE doc.upvotes],
                    ops |-> [NoOps EXCEPT !.pushDown = TRUE, !.setUp = hasUpvoted]]

\* does the update that save() sends match the stored document: the filter is
\* {_id} and, when an array is $set, also {__v: the version read}
SaveMatches(s, id, mem, ops) ==
  /\ Exists(s, id)
  /\ (ops.setUp \/ ops.setDown) => s[id].v = mem.v

\* the stored document after the update that save() sends
SaveDelta(stored, mem, ops, u) ==
  [stored EXCEPT
     !.upvotes = IF ops.setUp THEN mem.upvotes
                 ELSE IF ops.pushUp THEN Append(stored.upvotes, u)
                 ELSE stored.upvotes,
     !.downvotes = IF ops.setDown THEN mem.downvotes
                   ELSE IF ops.pushDown THEN Append(stored.downvotes, u)
                   ELSE stored.downvotes,
     !.v = stored.v + 1]

\* the voteType check, Comment.findById, then the toggle on the document read
FindForVote(p, via, u, id, t) ==
  /\ pc[p].phase = "idle"
  /\ Exists(store, id) => store[id].v < MaxVersion
  /\ LET req == [Idle EXCEPT !.op = "vote", !.via = via, !.user = u, !.id = id,
                              !.vtype = t]
     IN pc' = [pc EXCEPT ![p] =
                 IF t \notin {"upvote", "downvote"}
                   THEN [req EXCEPT !.phase = "respond", !.status = "invalid"]
                 ELSE IF ~Exists(store, id)
                   THEN [req EXCEPT !.phase = "respond", !.status = "notfound"]
                 ELSE LET read == [upvotes |-> store[id].upvotes,
                                   downvotes |-> store[id].downvotes,
                                   v |-> store[id].v]
                          voted == ApplyVote(read, u, t)
                      IN [req EXCEPT !.phase = "voteSave", !.blog = store[id].blog,
                                     !.doc = voted.doc, !.ops = voted.ops,
                                     !.seen = PairState(read, u),
                                     !.prev = lastVote[u][id]]]
  /\ UNCHANGED <<store, nextId, lastVote>>
  /\ UNCHANGED conns

voteComment(p, u, id, t) == FindForVote(p, "rest", u, id, t) /\ UNCHANGED <<origin, client>>

voteCommentSocket(p, u, id, t) == FindForVote(p, "socket", u, id, t)

\* comment.save(), then the response / comment-voted broadcast carrying
\* comment.upvotes.length - comment.downvotes.length of the in-memory document
SaveVote(p) ==
  /\ pc[p].phase = "voteSave"
  /\ LET id == pc[p].id
         u == pc[p].user
     IN IF SaveMatches(store, id, pc[p].doc, pc[p].ops)
          THEN /\ store' = [store EXCEPT ![id] = SaveDelta(@, pc[p].doc, pc[p].ops, u)]
               /\ pc' = [pc EXCEPT ![p] =
                           [Finish(p, "ok", IF pc[p].via = "socket" THEN "comment-voted"
                                                                     ELSE "none")
                              EXCEPT !.score = VoteScore(pc[p].doc),
                                     !.wrote = store[id].v + 1,
                                     !.changed = TRUE]]
               /\ lastVote' = [lastVote EXCEPT ![u][id] =
                                 IF PairState(store[id], u) = pc[p].seen /\ pc[p].seen # "both"
                                   THEN [vtype |-> pc[p].vtype, from |-> pc[p].seen]
                                   ELSE NoVote]
          ELSE /\ pc' = [pc EXCEPT ![p] = Fail(p, "failed")]
               /\ UNCHANGED <<store, lastVote>>
  /\ UNCHANGED nextId
  /\ UNCHANGED <<conns, origin, client>>

\* ---------------------------------------------------------- store errors
\* await comment.populate('author', ..) after the save() of a create or an
\* update rejects (the store is unreachable): the catch block answers 500
\* or emits comment-error
populateThrows(p) ==
  /\ pc[p].phase = "respond"
  /\ pc[p].op \in {"create", "update"}
  /\ pc[p].status = "ok"
  /\ pc' = [pc EXCEPT ![p] = Fail(p, "failed")]
  /\ UNCHANGED <<store, nextId, lastVote, conns, origin, client>>

\* await Comment.findByIdAndDelete(id) rejects after deleteMany has run
findByIdAndDeleteThrows(p) ==
  /\ pc[p].phase = "delSelf"
  /\ pc' = [pc EXCEPT ![p] = Fail(p, "failed")]
  /\ UNCHANGED <<store, nextId, lastVote, conns, origin, client>>

\* -------------------------------------------------------------- the hub
\* commentNamespace.use: the handshake.  Without a token, or with one that
\* verifyAccessToken rejects, next(new Error(..)) refuses the connection;
\* otherwise socket.user is the decoded payload
useAcceptsAny(token) == TRUE

use(token) == token # NoToken /\ verifyAccessToken(token) # Throws

\* io(url, {auth: {token}}) of a client whose socket is not connected
connect(s, token) ==
  /\ sock[s].state # "open"
  /\ sock' = [sock EXCEPT ![s] =
       IF use(token)
         THEN [state |-> "open", user |-> [id |-> token.id, role |-> token.role],
               token |-> token, rooms |-> {}]
         ELSE [NoSocket EXCEPT !.state = "refused", !.token = token]]
  /\ UNCHANGED <<store, nextId, pc, lastVote, inbox, origin, comments, response, client, handled>>

\* socket.disconnect(): the socket leaves its rooms; what was emitted to it
\* and not received, or is emitted to it later, is lost
disconnect(s) ==
  /\ sock[s].state = "open"
  /\ sock' = [sock EXCEPT ![s] = NoSocket]
  /\ inbox' = [inbox EXCEPT ![s] = <<>>]
  /\ origin' = [p \in Procs |-> IF origin[p] = s THEN NoConn ELSE origin[p]]
  /\ UNCHANGED <<store, nextId, pc, lastVote, comments, response, client, handled>>

\* socket.on('join-blog'): socket.join(`blog:${blogId}`)
joinBlog(s, b) ==
  /\ sock[s].state = "open"
  /\ sock' = [sock EXCEPT ![s].rooms = @ \cup {b}]
  /\ UNCHANGED <<store, nextId, pc, lastVote, inbox, origin, comments, response, client, handled>>

\* socket.on('leave-blog'): socket.leave(`blog:${blogId}`)
leaveBlog(s, b) ==
  /\ sock[s].state = "open"
  /\ sock' = [sock EXCEPT ![s].rooms = @ \ {b}]
  /\ UNCHANGED <<store, nextId, pc, lastVote, inbox, origin, comments, response, client, handled>>

\* a socket event is taken up while fewer than MaxInbox events are on
\* their way to any client
CanEmit ==
  \A c \in Conns :
    Len(inbox[c]) + Cardinality({q \in Procs : origin[q] # NoConn}) < MaxInbox

\* the handlers registered on a connected socket; each runs with
\* userId = socket.user.id
onNewComment(p, s, b, parent, content) ==
  /\ sock[s].state = "open"
  /\ CanEmit
  /\ newComment(p, sock[s].user.id, b, parent, content)
  /\ origin' = [origin EXCEPT ![p] = s]
  /\ UNCHANGED client

onUpdateComment(p, s, id, content) ==
  /\ sock[s].state = "open"
  /\ CanEmit
  /\ updateCommentSocket(p, sock[s].user.id, id, content)
  /\ origin' = [origin EXCEPT ![p] = s]
  /\ UNCHANGED client

onDeleteComment(p, s, id) ==
  /\ sock[s].state = "open"
  /\ CanEmit
  /\ deleteCommentSocket(p, sock[s].user.id, id)
  /\ origin' = [origin EXCEPT ![p] = s]
  /\ UNCHANGED client

onVoteComment(p, s, id, t) ==
  /\ sock[s].state = "open"
  /\ CanEmit
  /\ voteCommentSocket(p, sock[s].user.id, id, t)
  /\ origin' = [origin EXCEPT ![p] = s]
  /\ UNCHANGED client

\* every client has received what was emitted to it
Received == \A c \in Conns : inbox[c] = <<>>

\* an event of socket s given to handler p while the other handler may be
\* serving another event: Node runs the handlers of several events
\* interleaved at their awaits
takeUp(p, s, handler) ==
  /\ sock[s].state = "open"
  /\ Received
  /\ handler
  /\ origin' = [origin EXCEPT ![p] = s]
  /\ UNCHANGED client

\* ------------------------------------------------------------ the client
\* sets of ids in createdAt order (ids are given in creation order)
RECURSIVE Descending(_)
Descending(S) ==
  IF S = {} THEN <<>>
  ELSE LET m == CHOOSE x \in S : \A y \in S : y <= x
       IN <<m>> \o Descending(S \ {m})

RECURSIVE Ascending(_)
Ascending(S) ==
  IF S = {} THEN <<>>
  ELSE LET m == CHOOSE x \in S : \A y \in S : x <= y
       IN <<m>> \o Ascending(S \ {m})

\* a comment as a client holds it
Entry(id, content, isEdited, voteScore, replies) ==
  [id |-> id, content |-> content, isEdited |-> isEdited,
   voteScore |-> voteScore, replies |-> replies]

\* getComments: the top-level comments of the blog, newest first, each with
\* its populated virtual replies (the comments whose parentComment is its
\* id), oldest first
ListView(st, b) ==
  LET Doc(id, replies) ==
        Entry(id, st[id].content, st[id].isEdited, VoteScore(st[id]), replies)
      Replies(id) ==
        LET ids == Ascending({r \in DOMAIN st : st[r].parentComment = id})
        IN [i \in DOMAIN ids |-> Doc(ids[i], <<>>)]
      tops == Descending({c \in DOMAIN st :
                           st[c].blog = b /\ st[c].parentComment = Null})
  IN [i \in DOMAIN tops |-> Doc(tops[i], Replies(tops[i]))]

\* a handler that puts a new top-level comment last
commentCreatedAppends(prev, e) ==
  LET comment == Entry(e.id, e.content, e.isEdited, e.voteScore, <<>>)
  IN IF e.parentId = Null
       THEN prev \o <<comment>>
       ELSE [i \in DOMAIN prev |->
               IF prev[i].id = e.parentId
                 THEN [prev[i] EXCEPT !.replies = Append(@, comment)]
                 ELSE prev[i]]

\* socketInstance.on('comment-created', ({comment, parentId}) => ..)
commentCreated(prev, e) ==
  LET comment == Entry(e.id, e.content, e.isEdited, e.voteScore, <<>>)
  IN IF e.parentId = Null
       THEN <<comment>> \o prev
       ELSE [i \in DOMAIN prev |->
               IF prev[i].id = e.parentId
                 THEN [prev[i] EXCEPT !.replies = Append(@, comment)]
                 ELSE prev[i]]

\* { ...c, ...comment }
Merge(c, e) ==
  [c EXCEPT !.content = e.content, !.isEdited = e.isEdited, !.voteScore = e.voteScore]

\* a handler that looks for the id among the top-level comments only
commentUpdatedTopOnly(prev, e) ==
  [i \in DOMAIN prev |-> IF prev[i].id = e.id THEN Merge(prev[i], e) ELSE prev[i]]

\* socketInstance.on('comment-updated', ({comment}) => ..)
commentUpdated(prev, e) ==
  [i \in DOMAIN prev |->
     IF prev[i].id = e.id
       THEN Merge(prev[i], e)
       ELSE [prev[i] EXCEPT !.replies =
               [j \in DOMAIN @ |-> IF @[j].id = e.id THEN Merge(@[j], e) ELSE @[j]]]]

\* a handler that looks for the id among the top-level comments only
commentDeletedTopOnly(prev, e) ==
  SelectSeq(prev, LAMBDA c : c.id # e.id)

\* socketInstance.on('comment-deleted', ({commentId}) => ..)
commentDeleted(prev, e) ==
  IF \E i \in DOMAIN prev : prev[i].id = e.id
    THEN SelectSeq(prev, LAMBDA c : c.id # e.id)
    ELSE [i \in DOMAIN prev |->
            [prev[i] EXCEPT !.replies = SelectSeq(@, LAMBDA r : r.id # e.id)]]

\* a handler that merges the whole payload into the comment
commentVotedMerges(prev, e) ==
  [i \in DOMAIN prev |->
     IF prev[i].id = e.id
       THEN Merge(prev[i], e)
       ELSE [prev[i] EXCEPT !.replies =
               [j \in DOMAIN @ |-> IF @[j].id = e.id THEN Merge(@[j], e) ELSE @[j]]]]

\* a handler that adds the payload's score to the score it holds
commentVotedAdds(prev, e) ==
  [i \in DOMAIN prev |->
     IF prev[i].id = e.id
       THEN [prev[i] EXCEPT !.voteScore = @ + e.voteScore]
       ELSE [prev[i] EXCEPT !.replies =
               [j \in DOMAIN @ |->
                  IF @[j].id = e.id THEN [@[j] EXCEPT !.voteScore = @ + e.voteScore]
                                    ELSE @[j]]]]

\* socketInstance.on('comment-voted', ({commentId, voteScore}) => ..)
commentVoted(prev, e) ==
  [i \in DOMAIN prev |->
     IF prev[i].id = e.id
       THEN [prev[i] EXCEPT !.voteScore = e.voteScore]
       ELSE [prev[i] EXCEPT !.replies =
               [j \in DOMAIN @ |->
                  IF @[j].id = e.id THEN [@[j] EXCEPT !.voteScore = e.voteScore]
                                    ELSE @[j]]]]

\* the handler the client runs for an event; comment-error shows a toast
Handle(prev, e) ==
  CASE e.type = "comment-created" -> commentCreated(prev, e)
    [] e.type = "comment-updated" -> commentUpdated(prev, e)
    [] e.type = "comment-deleted" -> commentDeleted(prev, e)
    [] e.type = "comment-voted" -> commentVoted(prev, e)
    [] OTHER -> prev

\* the client receives the oldest event emitted to its socket
receive(s) ==
  /\ inbox[s] # <<>>
  /\ comments' = [comments EXCEPT ![s] = Handle(@, Head(inbox[s]))]
  /\ inbox' = [inbox EXCEPT ![s] = Tail(@)]
  /\ handled' = [handled EXCEPT ![s] = Head(inbox[s])]
  /\ UNCHANGED <<store, nextId, pc, lastVote, sock, origin, response, client>>

\* the comments of a tree, replies included
RECURSIVE Size(_)
Size(tree) ==
  IF tree = <<>> THEN 0 ELSE 1 + Len(Head(tree).replies) + Size(Tail(tree))

\* the comment-created events a server can send: any id, any parentId
CreatedEvents ==
  {[type |-> "comment-created", id |-> i, parentId |-> q, content |-> Hi,
    isEdited |-> FALSE, voteScore |-> 0] :
     i \in CommentIds, q \in {Null} \cup CommentIds}

\* an event reaches the socket of client s
arrives(s, e) ==
  /\ Len(inbox[s]) < MaxInbox
  /\ Size(comments[s]) < MaxTree
  /\ inbox' = [inbox EXCEPT ![s] = Append(@, e)]
  /\ UNCHANGED <<store, nextId, pc, lastVote, sock, origin, comments, response, client, handled>>

\* the fetch effect, run once when the page opens: setLoading(true), then
\* api.get(`/comments/blog/${blogId}`) answered by getComments
fetchComments(s, b) ==
  /\ client[s].loading
  /\ ~response[s].sent
  /\ b \in Blogs
  /\ response' = [response EXCEPT ![s] = [sent |-> TRUE, comments |-> ListView(store, b)]]
  /\ UNCHANGED <<store, nextId, pc, lastVote, sock, inbox, origin, comments, client, handled>>

\* setComments(response.data.comments), then setLoading(false)
setComments(s) ==
  /\ response[s].sent
  /\ comments' = [comments EXCEPT ![s] = response[s].comments]
  /\ response' = [response EXCEPT ![s] = NoResponse]
  /\ client' = [client EXCEPT ![s].loading = FALSE]
  /\ UNCHANGED <<store, nextId, pc, lastVote, sock, inbox, origin, handled>>

\* ------------------------------------------------- the client's requests
\* the user a client is signed in as: the user of the access token that
\* api sends as Authorization header
Owner(s) == IF s = "s1" THEN "ann" ELSE "bob"

\* the page shown to every client
blogId == "b1"

\* checkAuth of AuthContext: GET /auth/me answered, setIsAuthenticated(true)
checkAuth(s) ==
  /\ ~client[s].isAuthenticated
  /\ client' = [client EXCEPT ![s].isAuthenticated = TRUE]
  /\ UNCHANGED <<store, nextId, pc, lastVote, conns, origin>>

\* the socket effect: if (!isAuthenticated) return; io(url, {auth: {token}});
\* setSocket(socketInstance).  The state holds the instance from here on,
\* whether or not the connection is, or ever gets, established
setSocket(s) ==
  /\ client[s].isAuthenticated
  /\ ~client[s].socket
  /\ client' = [client EXCEPT ![s].socket = TRUE]
  /\ UNCHANGED <<store, nextId, pc, lastVote, conns, origin>>

\* what a client submits
Request(op, id, content, vtype) ==
  [op |-> op, id |-> id, content |-> content, vtype |-> vtype]

\* socket.emit(..) on a socket that is not connected: the packet is kept in
\* the socket's sendBuffer
buffer(s, r) ==
  /\ Len(client[s].sendBuffer) < MaxInbox
  /\ client' = [client EXCEPT ![s].sendBuffer = Append(@, r)]
  /\ UNCHANGED <<store, nextId, pc, lastVote, conns, origin>>

\* if (socket) { socket.emit(..) } else { await api.<method>(..) }
submit(s, r, overSocket, overRest) ==
  IF client[s].socket
    THEN IF sock[s].state = "open" THEN overSocket ELSE buffer(s, r)
    ELSE overRest

handleSubmitComment(s, p, content) ==
  /\ client[s].isAuthenticated
  /\ Length(Trim(content)) > 0
  /\ submit(s, Request("create", Null, content, "upvote"),
            onNewComment(p, s, blogId, Null, content),
            createComment(p, Owner(s), blogId, Null, content))

handleSubmitReply(s, p, commentId, content) ==
  /\ Length(Trim(content)) > 0
  /\ submit(s, Request("create", commentId, content, "upvote"),
            onNewComment(p, s, blogId, commentId, content),
            createComment(p, Owner(s), blogId, commentId, content))

handleSubmitEdit(s, p, commentId, content) ==
  /\ Length(Trim(content)) > 0
  /\ submit(s, Request("update", commentId, content, "upvote"),
            onUpdateComment(p, s, commentId, content),
            updateComment(p, Owner(s), commentId, content))

handleDelete(s, p, commentId) ==
  submit(s, Request("delete", commentId, Hi, "upvote"),
         onDeleteComment(p, s, commentId),
         deleteComment(p, Owner(s), commentId))

handleVote(s, p, commentId, voteType) ==
  /\ client[s].isAuthenticated
  /\ submit(s, Request("vote", commentId, Hi, voteType),
            onVoteComment(p, s, commentId, voteType),
            voteComment(p, Owner(s), commentId, voteType))

\* the socket connects: the packets of its sendBuffer are sent, oldest
\* first, and the server handles each as the event it is
emitBuffered(s, p) ==
  /\ sock[s].state = "open"
  /\ client[s].sendBuffer # <<>>
  /\ CanEmit
  /\ LET r == Head(client[s].sendBuffer)
         userId == sock[s].user.id
     IN CASE r.op = "create" -> newComment(p, userId, blogId, r.id, r.content)
          [] r.op = "update" -> updateCommentSocket(p, userId, r.id, r.content)
          [] r.op = "delete" -> deleteCommentSocket(p, userId, r.id)
          [] r.op = "vote" -> voteCommentSocket(p, userId, r.id, r.vtype)
  /\ origin' = [origin EXCEPT ![p] = s]
  /\ client' = [client EXCEPT ![s].sendBuffer = Tail(@)]

\* socketInstance.on('connect', ..): socketInstance.emit('join-blog',
\* blogId), and nothing else
onConnect(s) == joinBlog(s, blogId)

\* ------------------------------------------------------------------ next
\* requests that create and delete comments, over both transports
NextThread ==
  \/ \E p \in Procs, u \in Users, b \in BlogIds, parent \in {Null} \cup CommentIds :
       createComment(p, u, b, parent, Hi)
  \/ \E p \in Procs : createCommentSave(p)
  \/ \E p \in Procs, u \in Users, b \in BlogIds, parent \in {Null} \cup CommentIds :
       newComment(p, u, b, parent, Hi) /\ UNCHANGED <<origin, client>>
  \/ \E p \in Procs, u \in Users, id \in CommentIds : deleteComment(p, u, id)
  \/ \E p \in Procs, u \in Users, id \in CommentIds :
       deleteCommentSocket(p, u, id) /\ UNCHANGED <<origin, client>>
  \/ \E p \in Procs : deleteMany(p)
  \/ \E p \in Procs : findByIdAndDelete(p)
  \/ \E p \in Procs : Respond(p)

\* requests that vote on and delete comments, over both transports
NextVote ==
  \/ \E p \in Procs, u \in Users, id \in CommentIds, t \in VoteTypes :
       voteComment(p, u, id, t)
  \/ \E p \in Procs, u \in Users, id \in CommentIds, t \in VoteTypes :
       voteCommentSocket(p, u, id, t) /\ UNCHANGED <<origin, client>>
  \/ \E p \in Procs : SaveVote(p)
  \/ \E p \in Procs, u \in Users, id \in CommentIds : deleteComment(p, u, id)
  \/ \E p \in Procs, u \in Users, id \in CommentIds :
       deleteCommentSocket(p, u, id) /\ UNCHANGED <<origin, client>>
  \/ \E p \in Procs : deleteMany(p)
  \/ \E p \in Procs : findByIdAndDelete(p)
  \/ \E p \in Procs : Respond(p)

\* creates and deletes submitted over the REST fallback only
NextRest ==
  \/ \E p \in Procs, u \in Users, b \in BlogIds, parent \in {Null} \cup CommentIds :
       createComment(p, u, b, parent, Hi)
  \/ \E p \in Procs : createCommentSave(p)
  \/ \E p \in Procs, u \in Users, id \in CommentIds : deleteComment(p, u, id)
  \/ \E p \in Procs : deleteMany(p)
  \/ \E p \in Procs : findByIdAndDelete(p)
  \/ \E p \in Procs : Respond(p)

Next == NextThread \/ NextVote

\* every request kind, from the empty store
Spec == Init /\ [][Next]_vars

\* the thread structure: creates and deletes from the empty store
SpecThread == Init /\ [][NextThread]_vars

\* the thread structure when every create passes the REST validation
SpecRest == Init /\ [][NextRest]_vars

\* the vote ledger of a comment that ann posted on blog b1
InitVote ==
  /\ store = Insert(<< >>, 1, NewComment("ann", "b1", Null, Hi))
  /\ nextId = 2
  /\ pc = [p \in Procs |-> Idle]
  /\ lastVote = [u \in Users |-> [c \in CommentIds |-> NoVote]]
  /\ InitConns

SpecVote == InitVote /\ [][NextVote]_vars

\* both clients have the page of blog b1 open, connected and joined, ann on
\* s1 and bob on s2; bob's comment 1 has a reply; the votes cast on the two
\* comments so far were taken back
InitEdit ==
  /\ \E a \in Users :
       store = Insert(Insert(<< >>, 1, [NewComment("bob", "b1", Null, Hi)
                                          EXCEPT !.v = MaxVersion - 1]),
                      2, [NewComment(a, "b1", 1, Hi) EXCEPT !.v = MaxVersion - 1])
  /\ nextId = 3
  /\ pc = [p \in Procs |-> Idle]
  /\ lastVote = [u \in Users |-> [c \in CommentIds |-> NoVote]]
  /\ sock = [s \in Conns |->
       LET token == generateAccessToken(IF s = "s1" THEN "ann" ELSE "bob",
                                        Role(IF s = "s1" THEN "ann" ELSE "bob"))
       IN [state |-> "open", user |-> verifyAccessToken(token), token |-> token,
           rooms |-> {"b1"}]]
  /\ inbox = [s \in Conns |-> <<>>]
  /\ origin = [p \in Procs |-> NoConn]
  /\ comments = [s \in Conns |-> ListView(store, "b1")]
  /\ response = [s \in Conns |-> NoResponse]
  /\ client = [s \in Conns |-> SignedIn]
  /\ handled = [s \in Conns |-> NoEvent]

\* updates and deletes over both transports, and what they emit
NextEdit ==
  \/ \E p \in Procs, u \in Users, id \in CommentIds : updateComment(p, u, id, Yo)
  \/ \E p \in Procs, s \in Conns, id \in CommentIds : onUpdateComment(p, s, id, Yo)
  \/ \E p \in Procs : SaveUpdate(p)
  \/ \E p \in Procs, u \in Users, id \in CommentIds : deleteComment(p, u, id)
  \/ \E p \in Procs, s \in Conns, id \in CommentIds : onDeleteComment(p, s, id)
  \/ \E p \in Procs : deleteMany(p)
  \/ \E p \in Procs : findByIdAndDelete(p)
  \/ \E p \in Procs : Respond(p)

SpecEdit == InitEdit /\ [][NextEdit]_vars

\* ann's client s1 and bob's client s2 are connected; no room has a member
\* yet.  Of the comments posted so far ann's comment 1 on blog b1 is left,
\* after votes that were taken back
InitRoom ==
  /\ store = Insert(<< >>, 1, [NewComment("ann", "b1", Null, Hi)
                                  EXCEPT !.v = MaxVersion - 1])
  /\ nextId = MaxComments
  /\ pc = [p \in Procs |-> Idle]
  /\ lastVote = [u \in Users |-> [c \in CommentIds |-> NoVote]]
  /\ sock = [s \in Conns |->
       LET token == generateAccessToken(IF s = "s1" THEN "ann" ELSE "bob",
                                        Role(IF s = "s1" THEN "ann" ELSE "bob"))
       IN [state |-> "open", user |-> verifyAccessToken(token), token |-> token,
           rooms |-> {}]]
  /\ inbox = [s \in Conns |-> <<>>]
  /\ origin = [p \in Procs |-> NoConn]
  /\ comments = [s \in Conns |-> <<>>]
  /\ response = [s \in Conns |-> NoResponse]
  /\ client = [s \in Conns |-> SignedIn]
  /\ handled = [s \in Conns |-> NoEvent]

\* sockets joining and leaving rooms while the four mutations are submitted
\* over them
NextRoom ==
  \/ \E s \in Conns, b \in Blogs : joinBlog(s, b)
  \/ \E s \in Conns, b \in Blogs : leaveBlog(s, b)
  \/ \E p \in Procs, s \in Conns, b \in Blogs : onNewComment(p, s, b, Null, Hi)
  \/ \E p \in Procs, s \in Conns, id \in CommentIds : onUpdateComment(p, s, id, Yo)
  \/ \E p \in Procs : SaveUpdate(p)
  \/ \E p \in Procs, s \in Conns, id \in CommentIds : onDeleteComment(p, s, id)
  \/ \E p \in Procs : deleteMany(p)
  \/ \E p \in Procs : findByIdAndDelete(p)
  \/ \E p \in Procs, s \in Conns : onVoteComment(p, s, 1, "upvote")
  \/ \E p \in Procs : SaveVote(p)
  \/ \E p \in Procs : Respond(p)

SpecRoom == InitRoom /\ [][NextRoom]_vars

\* the mutations of SpecEdit and votes, submitted over the sockets, with a
\* store that can fail between two awaits of a handler
NextFault ==
  \/ \E p \in Procs, s \in Conns, id \in CommentIds : onUpdateComment(p, s, id, Yo)
  \/ \E p \in Procs : SaveUpdate(p)
  \/ \E p \in Procs : populateThrows(p)
  \/ \E p \in Procs, s \in Conns, id \in CommentIds : onDeleteComment(p, s, id)
  \/ \E p \in Procs : deleteMany(p)
  \/ \E p \in Procs : findByIdAndDelete(p)
  \/ \E p \in Procs : findByIdAndDeleteThrows(p)
  \/ \E p \in Procs, s \in Conns, id \in CommentIds, t \in VoteTypes :
       onVoteComment(p, s, id, t)
  \/ \E p \in Procs : SaveVote(p)
  \/ \E p \in Procs : Respond(p)

SpecFault == InitEdit /\ [][NextFault]_vars

\* the mutations of SpecEdit with both clients receiving what is emitted
NextSync ==
  \/ \E p \in Procs, u \in Users, id \in CommentIds : updateComment(p, u, id, Yo)
  \/ \E p \in Procs, s \in Conns, id \in CommentIds : onUpdateComment(p, s, id, Yo)
  \/ \E p \in Procs : SaveUpdate(p)
  \/ \E p \in Procs, u \in Users, id \in CommentIds : deleteComment(p, u, id)
  \/ \E p \in Procs, s \in Conns, id \in CommentIds : onDeleteComment(p, s, id)
  \/ \E p \in Procs : deleteMany(p)
  \/ \E p \in Procs : findByIdAndDelete(p)
  \/ \E p \in Procs : Respond(p)
  \/ \E s \in Conns : receive(s)

SpecSync == InitEdit /\ [][NextSync]_vars

\* creates and updates with contents of every kind, over both transports
NextContent ==
  \/ \E p \in Procs, u \in Users, b \in Blogs, content \in Contents :
       createComment(p, u, b, Null, content)
  \/ \E p \in Procs : createCommentSave(p)
  \/ \E p \in Procs, u \in Users, b \in Blogs, content \in Contents :
       newComment(p, u, b, Null, content) /\ UNCHANGED <<origin, client>>
  \/ \E p \in Procs, u \in Users, id \in CommentIds, content \in Contents :
       updateComment(p, u, id, content)
  \/ \E p \in Procs, u \in Users, id \in CommentIds, content \in Contents :
       updateCommentSocket(p, u, id, content) /\ UNCHANGED <<origin, client>>
  \/ \E p \in Procs : SaveUpdate(p)
  \/ \E p \in Procs : Respond(p)

\* updates and votes running together, over both transports
NextEditVote ==
  \/ \E p \in Procs, u \in Users, id \in CommentIds : updateComment(p, u, id, Yo)
  \/ \E p \in Procs, s \in Conns, id \in CommentIds : onUpdateComment(p, s, id, Yo)
  \/ \E p \in Procs : SaveUpdate(p)
  \/ \E p \in Procs, u \in Users, id \in CommentIds : voteComment(p, u, id, "upvote")
  \/ \E p \in Procs : SaveVote(p)
  \/ \E p \in Procs : Respond(p)

SpecEditVote == InitEdit /\ [][NextEditVote]_vars

\* no client has connected yet; of the comments posted so far ann's
\* comment 1 on blog b1 is left, after votes that were taken back
InitHub ==
  /\ store = Insert(<< >>, 1, [NewComment("ann", "b1", Null, Hi)
                                  EXCEPT !.v = MaxVersion - 1])
  /\ nextId = MaxComments
  /\ pc = [p \in Procs |-> Idle]
  /\ lastVote = [u \in Users |-> [c \in CommentIds |-> NoVote]]
  /\ InitConns

\* handshakes with every kind of token, disconnects, and the four
\* mutations submitted over the sockets that were accepted: new top-level
\* comments, and updates, deletes and upvotes of comment 1
NextHub ==
  \/ \E s \in Conns, token \in Tokens : connect(s, token)
  \/ \E s \in Conns : disconnect(s)
  \/ \E p \in Procs, s \in Conns, b \in Blogs : onNewComment(p, s, b, Null, Hi)
  \/ \E p \in Procs, s \in Conns : onUpdateComment(p, s, 1, Yo)
  \/ \E p \in Procs : SaveUpdate(p)
  \/ \E p \in Procs, s \in Conns : onDeleteComment(p, s, 1)
  \/ \E p \in Procs : deleteMany(p)
  \/ \E p \in Procs : findByIdAndDelete(p)
  \/ \E p \in Procs, s \in Conns : onVoteComment(p, s, 1, "upvote")
  \/ \E p \in Procs : SaveVote(p)
  \/ \E p \in Procs : Respond(p)

SpecHub == InitHub /\ [][NextHub]_vars

\* the contents that get into the store, with ann's comment 1 stored and
\* one more comment to come
SpecContent == InitHub /\ [][NextContent]_vars

\* the reconciler of client s1 fed with comment-created events
NextReconcile ==
  \/ \E e \in CreatedEvents : arrives("s1", e)
  \/ receive("s1")

SpecReconcile == Init /\ [][NextReconcile]_vars

\* the comment-deleted events a server can send: any id
DeletedEvents ==
  {[type |-> "comment-deleted", id |-> i, parentId |-> Null, content |-> Hi,
    isEdited |-> FALSE, voteScore |-> 0] : i \in CommentIds}

\* the reconciler of client s1 fed with comment-created and comment-deleted
\* events
NextRemove ==
  \/ \E e \in CreatedEvents : arrives("s1", e)
  \/ \E e \in DeletedEvents : arrives("s1", e)
  \/ receive("s1")

SpecRemove == Init /\ [][NextRemove]_vars

\* the comment-updated events a server can send: any id, the new content
\* trimmed, and the score of the document the handler holds
UpdatedEvents ==
  {[type |-> "comment-updated", id |-> i, parentId |-> Null, content |-> Trim(Yo),
    isEdited |-> TRUE, voteScore |-> v] : i \in CommentIds, v \in {0, 1}}

\* the comment-voted events a server can send: any id, a score
VotedEvents ==
  {[type |-> "comment-voted", id |-> i, parentId |-> Null, content |-> Hi,
    isEdited |-> FALSE, voteScore |-> v] : i \in CommentIds, v \in {-1, 1}}

\* the reconciler of client s1, which has loaded comment 1 and its reply
\* 2, fed one event at a time with comment-updated and comment-voted
\* events, and with the comment-created events of comments and of replies
\* to other comments
NextMerge ==
  \/ \E e \in CreatedEvents :
       e.parentId # e.id /\ inbox["s1"] = <<>> /\ arrives("s1", e)
  \/ \E e \in UpdatedEvents : inbox["s1"] = <<>> /\ arrives("s1", e)
  \/ \E e \in VotedEvents : inbox["s1"] = <<>> /\ arrives("s1", e)
  \/ receive("s1")

SpecMerge == InitEdit /\ [][NextMerge]_vars

\* the clients have just opened the page of blog b1, their auth check
\* pending; ann's comment 1 is stored, after votes that were taken back
InitSubmit ==
  /\ store = Insert(<< >>, 1, [NewComment("ann", "b1", Null, Hi)
                                  EXCEPT !.v = MaxVersion - 1])
  /\ nextId = MaxComments
  /\ pc = [p \in Procs |-> Idle]
  /\ lastVote = [u \in Users |-> [c \in CommentIds |-> NoVote]]
  /\ sock = [s \in Conns |-> NoSocket]
  /\ inbox = [s \in Conns |-> <<>>]
  /\ origin = [p \in Procs |-> NoConn]
  /\ comments = [s \in Conns |-> <<>>]
  /\ response = [s \in Conns |-> NoResponse]
  /\ client = [s \in Conns |-> NoClient]
  /\ handled = [s \in Conns |-> NoEvent]

\* ann's client s1 signs in, creates its socket, connects with its token
\* or with one that no longer verifies, loses the connection, and submits
\* the five mutations at any of these moments
NextSubmit ==
  \/ checkAuth("s1")
  \/ setSocket("s1")
  \/ \E token \in {generateAccessToken(Owner("s1"), Role(Owner("s1"))), BadToken} :
       client["s1"].socket /\ connect("s1", token)
  \/ disconnect("s1")
  \/ \E p \in Procs : handleSubmitComment("s1", p, Hi)
  \/ \E p \in Procs : handleSubmitReply("s1", p, 1, Hi)
  \/ \E p \in Procs : handleSubmitEdit("s1", p, 1, Yo)
  \/ \E p \in Procs : handleDelete("s1", p, 1)
  \/ \E p \in Procs : handleVote("s1", p, 1, "upvote")
  \/ \E p \in Procs : emitBuffered("s1", p)
  \/ \E p \in Procs : createCommentSave(p)
  \/ \E p \in Procs : SaveUpdate(p)
  \/ \E p \in Procs : deleteMany(p)
  \/ \E p \in Procs : findByIdAndDelete(p)
  \/ \E p \in Procs : SaveVote(p)
  \/ \E p \in Procs : Respond(p)

SpecSubmit == InitSubmit /\ [][NextSubmit]_vars

\* both clients have loaded the page and joined; ann's client s1 loses its
\* connection and connects again while bob edits comments from s2
NextGap ==
  \/ disconnect("s1")
  \/ client["s1"].socket
       /\ connect("s1", generateAccessToken(Owner("s1"), Role(Owner("s1"))))
  \/ onConnect("s1")
  \/ \E p \in Procs, id \in CommentIds : onUpdateComment(p, "s2", id, Yo)
  \/ \E p \in Procs : SaveUpdate(p)
  \/ \E p \in Procs : Respond(p)
  \/ \E s \in Conns : receive(s)

SpecGap == InitEdit /\ [][NextGap]_vars

\* ann's client s1 has just opened the page of blog b1: its socket is
\* connected and its fetch of the comments is to come; bob's client s2 is
\* connected; ann's comment 1 is stored
InitLoad ==
  /\ store = Insert(<< >>, 1, NewComment("ann", "b1", Null, Hi))
  /\ nextId = MaxComments
  /\ pc = [p \in Procs |-> Idle]
  /\ lastVote = [u \in Users |-> [c \in CommentIds |-> NoVote]]
  /\ sock = [s \in Conns |->
       LET token == generateAccessToken(Owner(s), Role(Owner(s)))
       IN [state |-> "open", user |-> verifyAccessToken(token), token |-> token,
           rooms |-> {}]]
  /\ inbox = [s \in Conns |-> <<>>]
  /\ origin = [p \in Procs |-> NoConn]
  /\ comments = [s \in Conns |-> <<>>]
  /\ response = [s \in Conns |-> NoResponse]
  /\ client = [s \in Conns |-> IF s = "s1" THEN [SignedIn EXCEPT !.loading = TRUE]
                                             ELSE SignedIn]
  /\ handled = [s \in Conns |-> NoEvent]

\* the clients join the room and s1 loads the snapshot while a comment or a
\* reply is posted from either socket
NextLoad ==
  \/ \E s \in Conns : onConnect(s)
  \/ fetchComments("s1", blogId)
  \/ setComments("s1")
  \/ \E p \in Procs, s \in Conns, parent \in {Null, 1} :
       onNewComment(p, s, blogId, parent, Hi)
  \/ \E p \in Procs : Respond(p)
  \/ \E s \in Conns : receive(s)

SpecLoad == InitLoad /\ [][NextLoad]_vars

\* updates, upvotes and deletes of comment 1 sent over the sockets and
\* handled at the same time, with both clients in the room
NextRace ==
  \/ \E p \in Procs, s \in Conns :
       takeUp(p, s, updateCommentSocket(p, sock[s].user.id, 1, Yo))
  \/ \E p \in Procs : SaveUpdate(p)
  \/ \E p \in Procs, s \in Conns :
       takeUp(p, s, voteCommentSocket(p, sock[s].user.id, 1, "upvote"))
  \/ \E p \in Procs : SaveVote(p)
  \/ \E p \in Procs, s \in Conns :
       takeUp(p, s, deleteCommentSocket(p, sock[s].user.id, 1))
  \/ \E p \in Procs : deleteMany(p)
  \/ \E p \in Procs : findByIdAndDelete(p)
  \/ \E p \in Procs : Respond(p)
  \/ \E s \in Conns : receive(s)

SpecRace == InitEdit /\ [][NextRace]_vars

\* votes on comment 1 sent over the sockets and handled at the same time,
\* with both clients in the room and receiving
NextTally ==
  \/ \E p \in Procs, s \in Conns, t \in VoteTypes :
       takeUp(p, s, voteCommentSocket(p, sock[s].user.id, 1, t))
  \/ \E p \in Procs : SaveVote(p)
  \/ \E p \in Procs : Respond(p)
  \/ \E s \in Conns : receive(s)

SpecTally == InitEdit /\ [][NextTally]_vars

\* the sockets join and leave the rooms of blog b1 and of another blog,
\* disconnect and connect again, while comment 1 of blog b1 is updated and
\* upvoted over them
NextIsolation ==
  \/ \E s \in Conns, b \in BlogIds : joinBlog(s, b)
  \/ \E s \in Conns, b \in BlogIds : leaveBlog(s, b)
  \/ \E s \in Conns : disconnect(s)
  \/ \E s \in Conns : connect(s, generateAccessToken(Owner(s), Role(Owner(s))))
  \/ \E s \in Conns : onUpdateComment("h1", s, 1, Yo)
  \/ SaveUpdate("h1")
  \/ \E s \in Conns : onVoteComment("h1", s, 1, "upvote")
  \/ SaveVote("h1")
  \/ Respond("h1")
  \/ \E s \in Conns : receive(s)

SpecIsolation == InitRoom /\ [][NextIsolation]_vars

TypeOK ==
  /\ DOMAIN store \subseteq CommentIds
  /\ nextId \in 1..(MaxComments + 1)

\* ------------------------------------------------------------ vote claims
\* p's step is the write of a vote (the save() of a vote handler)
VoteWrite(p) == pc[p].phase = "voteSave" /\ pc'[p].phase = "respond"

\* p's write of a vote was applied to the stored comment
VoteWritten(p) == VoteWrite(p) /\ pc'[p].status = "ok"

\* the vote state machine of a (comment, user) pair
Transition(state, t) ==
  IF t = "upvote" THEN (IF state = "upvoted" THEN "none" ELSE "upvoted")
                  ELSE (IF state = "downvoted" THEN "none" ELSE "downvoted")

VotedState(t) == IF t = "upvote" THEN "upvoted" ELSE "downvoted"

\* C1: no user id is in both the upvotes and the downvotes list of a comment
C1_LedgerDisjoint ==
  \A id \in DOMAIN store : \A u \in Users :
    ~(Includes(store[id].upvotes, u) /\ Includes(store[id].downvotes, u))

\* C2: when two different users vote on one comment, one upvote and one
\* downvote, and the first writes between the read and the write of the
\* second, both votes are applied: the second write succeeds too and the
\* stored ledger then holds the vote each of the two calls computed
C2_NoLostVote ==
  [][\A p \in Procs : \A q \in Procs \ {p} :
       ( /\ VoteWrite(p)
         /\ pc[q].phase = "respond" /\ pc[q].op = "vote" /\ pc[q].status = "ok"
         /\ pc[q].id = pc[p].id
         /\ pc[q].user # pc[p].user
         /\ pc[q].vtype # pc[p].vtype
         /\ pc[p].doc.v < pc[q].wrote )
       => /\ pc'[p].status = "ok"
          /\ PairState(store'[pc[p].id], pc[p].user)
               = Transition(pc[p].seen, pc[p].vtype)
          /\ PairState(store'[pc[p].id], pc[q].user)
               = Transition(pc[q].seen, pc[q].vtype)]_vars

\* C3: a vote call that no other vote of the same user interleaves moves the
\* user's state along the transition table and leaves every other user's
\* entries in both lists as they were; a call that nothing interleaves succeeds
C3_VoteTransition ==
  [][\A p \in Procs :
       LET id == pc[p].id
           u == pc[p].user
       IN /\ ( /\ VoteWritten(p)
               /\ pc[p].seen # "both"
               /\ PairState(store[id], u) = pc[p].seen )
             => /\ PairState(store'[id], u) = Transition(pc[p].seen, pc[p].vtype)
                /\ Without(store'[id].upvotes, u) = Without(store[id].upvotes, u)
                /\ Without(store'[id].downvotes, u) = Without(store[id].downvotes, u)
          /\ ( /\ VoteWrite(p)
               /\ Exists(store, id)
               /\ store[id].v = pc[p].doc.v )
             => pc'[p].status = "ok"]_vars

\* a socket or REST vote switched ann or bob from upvoted to downvoted
C3_Witness ==
  \E p \in Procs :
    /\ pc[p].phase = "respond" /\ pc[p].op = "vote" /\ pc[p].status = "ok"
    /\ pc[p].seen = "upvoted" /\ pc[p].vtype = "downvote"
    /\ Exists(store, pc[p].id)
    /\ PairState(store[pc[p].id], pc[p].user) = "downvoted"
    /\ \E w \in Users \ {pc[p].user} : PairState(store[pc[p].id], w) # "none"

\* p's write is the second of two consecutive votes of one user on one
\* comment with the same voteType: the user's previous vote on the comment
\* was written before p read, no vote of the user was written since, and
\* neither of the two was interleaved by another vote of the user
SecondOfPair(p) ==
  /\ VoteWritten(p)
  /\ pc[p].prev.vtype = pc[p].vtype
  /\ lastVote[pc[p].user][pc[p].id] = pc[p].prev
  /\ pc[p].seen # "both"
  /\ PairState(store[pc[p].id], pc[p].user) = pc[p].seen

\* C4 as stated: two consecutive votes of the same type by one user leave
\* the user's state "none", whatever the state before the first
C4_TwiceIsNone ==
  [][\A p \in Procs :
       SecondOfPair(p) => PairState(store'[pc[p].id], pc[p].user) = "none"]_vars

\* C4 amended: two consecutive votes of the same type by one user leave the
\* user's state "none" when the state before the first was "none" or the
\* opposite vote, and leave it as it was when it already was that vote
C4_TwiceRoundTrip ==
  [][\A p \in Procs :
       SecondOfPair(p) =>
         PairState(store'[pc[p].id], pc[p].user) =
           (IF pc[p].prev.from = VotedState(pc[p].vtype)
              THEN pc[p].prev.from ELSE "none")]_vars

\* a user who had downvoted upvoted twice in a row and now has no vote
C4_Witness ==
  \E p \in Procs :
    /\ pc[p].phase = "respond" /\ pc[p].op = "vote" /\ pc[p].status = "ok"
    /\ pc[p].vtype = "upvote"
    /\ pc[p].prev = [vtype |-> "upvote", from |-> "downvoted"]
    /\ lastVote[pc[p].user][pc[p].id] = [vtype |-> "upvote", from |-> "upvoted"]
    /\ Exists(store, pc[p].id)
    /\ PairState(store[pc[p].id], pc[p].user) = "none"

\* C5: the voteScore a vote call returns (REST) or broadcasts (socket) is
\* |upvotes| - |downvotes| of the comment as stored right after its write
C5_ScoreIsStored ==
  [][\A p \in Procs :
       VoteWritten(p) => pc'[p].score = VoteScore(store'[pc[p].id])]_vars

\* ---------------------------------------------------------- thread claims
\* p's step is the one that handles a create request up to its validation:
\* the whole 'new-comment' handler, or createComment up to the parent lookup
CreateHandled(p) == pc[p].phase = "idle" /\ pc'[p].op = "create"

\* p's step persists the comment of a create request
CreatePersisted(p) ==
  /\ pc[p].phase \in {"idle", "createSave"}
  /\ pc'[p].op = "create" /\ pc'[p].phase = "respond" /\ pc'[p].status = "ok"

\* C6: every stored comment with a parentComment references a stored
\* comment of the same blog that has no parentComment itself
C6_OneLevelThreads ==
  \A id \in DOMAIN store :
    store[id].parentComment # Null =>
      /\ Exists(store, store[id].parentComment)
      /\ store[store[id].parentComment].blog = store[id].blog
      /\ store[store[id].parentComment].parentComment = Null

\* C7: no create persists a comment, or broadcasts comment-created, when the
\* parent it names is stored and is itself a reply
C7_ReplyToReplyRejected ==
  [][\A p \in Procs :
       ( /\ pc'[p].op = "create" /\ pc'[p].phase = "respond" /\ pc[p].phase # "respond"
         /\ pc'[p].parent # Null
         /\ Exists(store, pc'[p].parent)
         /\ store[pc'[p].parent].parentComment # Null )
       => /\ pc'[p].status \notin {"ok"}
          /\ pc'[p].event # "comment-created"
          /\ store' = store]_vars

\* C8: the socket handler accepts a create only when the REST controller
\* accepts the same request on the same store
C8_SameDecision ==
  [][\A p \in Procs :
       (CreatePersisted(p) /\ pc'[p].via = "socket")
         => ValidateCreate(store, pc'[p].blog, pc'[p].parent) = "ok"]_vars

\* C9: a create that names a blog that does not exist, or a parent comment
\* that is not stored, is answered not-found and changes nothing
C9_MissingIsNotFound ==
  [][\A p \in Procs :
       ( /\ CreateHandled(p)
         /\ \/ pc'[p].blog \notin Blogs
            \/ pc'[p].parent # Null /\ ~Exists(store, pc'[p].parent) )
       => /\ pc'[p].phase = "respond"
          /\ pc'[p].status = "notfound"
          /\ store' = store /\ nextId' = nextId]_vars

\* C10: when the delete of a top-level comment completes, the comment and
\* all of its replies are gone from the store
C10_CascadeComplete ==
  [][\A p \in Procs :
       ( /\ pc[p].phase = "delSelf" /\ pc'[p].phase = "respond"
         /\ pc[p].parent = Null )
       => \A x \in DOMAIN store' :
            x # pc[p].id /\ store'[x].parentComment # pc[p].id]_vars

\* C11: a delete of a reply removes that comment only: no step of the
\* request removes or changes any other stored comment
C11_ReplyDeleteRemovesOne ==
  [][\A p \in Procs :
       ( /\ pc[p].phase \in {"delReplies", "delSelf"}
         /\ pc'[p].phase # pc[p].phase
         /\ pc[p].parent # Null )
       => \A x \in DOMAIN store \ {pc[p].id} :
            Exists(store', x) /\ store'[x] = store[x]]_vars

\* C12: no state a reader can observe holds a reply whose parent is not
\* stored (the parent gone while a reply to it remains)
C12_NoOrphanObserved ==
  \A x \in DOMAIN store :
    store[x].parentComment # Null => Exists(store, store[x].parentComment)

\* ------------------------------------------------- update and hub claims
\* C13: an update or delete asked for by a user who is neither the author
\* of the stored comment nor an admin ends as forbidden on both transports;
\* neither its lookup nor its answer changes the store, and nothing is
\* emitted for it except comment-error to the submitting socket
C13_ForbiddenChangesNothing ==
  [][\A p \in Procs :
       /\ ( /\ pc[p].phase = "idle"
            /\ pc'[p].op \in {"update", "delete"}
            /\ Exists(store, pc'[p].id)
            /\ store[pc'[p].id].author # pc'[p].user
            /\ Role(pc'[p].user) # "admin" )
          => /\ pc'[p].phase = "respond"
             /\ pc'[p].status = "forbidden"
             /\ pc'[p].event = "none"
             /\ store' = store
             /\ inbox' = inbox
       /\ ( /\ pc[p].phase = "respond"
            /\ pc[p].status = "forbidden"
            /\ pc'[p].phase = "idle" )
          => /\ store' = store
             /\ \A s \in Conns :
                  \/ inbox'[s] = inbox[s]
                  \/ /\ s = origin[p]
                     /\ pc[p].via = "socket"
                     /\ inbox'[s] = Append(inbox[s], CommentError)]_vars

\* a delete over REST and an update over the socket, both of bob's comment 1
\* that has a reply, both refused to ann
C13_Witness ==
  \E p, q \in Procs :
    /\ pc[p].status = "forbidden" /\ pc[p].via = "rest" /\ pc[p].op = "delete"
    /\ pc[q].status = "forbidden" /\ pc[q].via = "socket" /\ pc[q].op = "update"
    /\ pc[p].id = 1 /\ pc[q].id = 1
    /\ Exists(store, 2) /\ store[2].parentComment = 1
    /\ \E s \in Conns : s # origin[q] /\ "b1" \in sock[s].rooms

\* the event a successful mutation over the socket ends with
EventOf(op) ==
  CASE op = "create" -> "comment-created"
    [] op = "update" -> "comment-updated"
    [] op = "delete" -> "comment-deleted"
    [] op = "vote" -> "comment-voted"
    [] OTHER -> "none"

\* handler p emits what its request ended with
Emits(p) == pc[p].phase = "respond" /\ pc'[p].phase = "idle"

\* C14: when a mutation submitted over a socket has succeeded, its event
\* reaches every socket that is in the blog's room when it is emitted; the
\* submitting socket is not left out, it gets the event like every member
C14_EchoToRoom ==
  [][\A p \in Procs :
       (Emits(p) /\ pc[p].via = "socket" /\ pc[p].status = "ok")
       => /\ pc[p].event = EventOf(pc[p].op)
          /\ pc[p].event # "none"
          /\ \A s \in Conns :
               pc[p].blog \in sock[s].rooms
               => /\ Len(inbox'[s]) = Len(inbox[s]) + 1
                  /\ inbox'[s][Len(inbox'[s])].type = pc[p].event
                  /\ inbox'[s][Len(inbox'[s])].id = pc[p].id]_vars

\* a comment-voted event has reached the sockets of the room, both the
\* voter's and the other member's
C14_Witness ==
  \A s \in Conns :
    /\ "b1" \in sock[s].rooms
    /\ Len(inbox[s]) = 1
    /\ inbox[s][1].type = "comment-voted"
    /\ inbox[s][1].id = 1

\* C15: a mutation over the socket that ends in an error has changed
\* nothing in the store, has no room event, and its answer is comment-error
\* to the submitting socket alone
C15_FailureChangesNothing ==
  [][\A p \in Procs :
       (Emits(p) /\ pc[p].via = "socket" /\ pc[p].status # "ok")
       => /\ ~pc[p].changed
          /\ pc[p].event = "none"
          /\ store' = store
          /\ \A s \in Conns :
               \/ inbox'[s] = inbox[s]
               \/ s = origin[p] /\ inbox'[s] = Append(inbox[s], CommentError)]_vars

\* nothing is running and nothing is on its way to a client
Quiescent ==
  /\ \A p \in Procs : pc[p].phase = "idle"
  /\ \A s \in Conns : inbox[s] = <<>> /\ ~response[s].sent

\* C16: once every request has ended and every emitted event has been
\* received, each client that is connected and in the room of blog b1 holds
\* the list view of the store
C16_ClientsConverge ==
  Quiescent
  => \A s \in Conns :
       (sock[s].state = "open" /\ "b1" \in sock[s].rooms)
       => comments[s] = ListView(store, "b1")

\* ---------------------------------------------------------- content claims
\* handler p runs the save() of a create or of an update
SavesContent(p) ==
  /\ pc'[p].phase = "respond"
  /\ \/ pc[p].phase = "idle" /\ pc'[p].op = "create"
     \/ pc[p].phase = "createSave"
     \/ pc[p].phase = "updSave"

StoredInRange ==
  \A x \in DOMAIN store :
    Length(store[x].content) >= 1 /\ Length(store[x].content) <= 1000

\* C17 as stated: every stored content has 1 to 1000 characters, and a create
\* or update whose content is empty after trimming, or has more than 1000
\* characters as submitted, is rejected and changes nothing
C17_LongOrEmptyRejected ==
  /\ []StoredInRange
  /\ [][\A p \in Procs :
          ( /\ SavesContent(p)
            /\ \/ Length(Trim(pc'[p].content)) = 0
               \/ Length(pc'[p].content) > 1000 )
          => pc'[p].status # "ok" /\ store' = store]_vars

\* C17: every stored content has 1 to 1000 characters, and a create or
\* update whose content, after trimming, is empty or has more than 1000
\* characters is rejected and changes nothing, on both transports
C17_TrimmedLongOrEmptyRejected ==
  /\ []StoredInRange
  /\ [][\A p \in Procs :
          ( /\ SavesContent(p)
            /\ \/ Length(Trim(pc'[p].content)) = 0
               \/ Length(Trim(pc'[p].content)) > 1000 )
          => pc'[p].status # "ok" /\ store' = store]_vars

\* an update with 1001 characters was refused while a comment of exactly
\* 1000 characters is stored
C17_Witness ==
  \E p \in Procs, x \in DOMAIN store :
    /\ pc[p].op = "update" /\ pc[p].status = "failed"
    /\ Length(Trim(pc[p].content)) = 1001
    /\ Length(store[x].content) = 1000

\* handler p writes an update
UpdateWritten(p) ==
  pc[p].phase = "updSave" /\ pc'[p].phase = "respond" /\ pc'[p].status = "ok"

\* the write of handler p touches content and isEdited of its comment only
UpdateFrame(p) ==
  LET id == pc[p].id
  IN /\ DOMAIN store' = DOMAIN store
     /\ store'[id].isEdited
     /\ store'[id] = [store[id] EXCEPT !.content = store'[id].content,
                                       !.isEdited = TRUE]
     /\ \A x \in DOMAIN store \ {id} : store'[x] = store[x]

\* C18 as stated: a successful update stores the submitted content and
\* isEdited = true and changes nothing else, whatever runs beside it
C18_UpdateStoresSubmitted ==
  [][\A p \in Procs :
       UpdateWritten(p)
       => UpdateFrame(p) /\ store'[pc[p].id].content = pc[p].content]_vars

\* C18: a successful update stores the submitted content trimmed of
\* surrounding whitespace and isEdited = true; author, blog, parentComment,
\* upvotes, downvotes and every other comment are as before the write, also
\* when a vote on the same comment runs beside it
C18_UpdateStoresTrimmed ==
  [][\A p \in Procs :
       UpdateWritten(p)
       => UpdateFrame(p) /\ store'[pc[p].id].content = Trim(pc[p].content)]_vars

\* an update and a vote on the same comment ran side by side: the vote was
\* written after the update had read the comment, and both are stored
C18_Witness ==
  \E p, q \in Procs :
    /\ pc[p].op = "update" /\ pc[p].phase = "respond" /\ pc[p].status = "ok"
    /\ pc[q].op = "vote" /\ pc[q].phase = "respond" /\ pc[q].status = "ok"
    /\ pc[q].id = pc[p].id
    /\ Exists(store, pc[p].id)
    /\ store[pc[p].id].isEdited
    /\ store[pc[p].id].content = Trim(Yo)
    /\ store[pc[p].id].upvotes # <<>>
    /\ pc[p].score # VoteScore(store[pc[p].id])

\* the handshake of socket s presented a token that verified, and
\* socket.user is what that token carries
Verified(s) ==
  /\ sock[s].state = "open"
  /\ sock[s].token # NoToken
  /\ sock[s].token.signed
  /\ sock[s].user = [id |-> sock[s].token.id, role |-> sock[s].token.role]

\* handler p takes up a socket event
Handles(p) ==
  pc[p].phase = "idle" /\ pc'[p].phase # "idle" /\ pc'[p].via = "socket"

\* C19: every connected socket passed the handshake with a token that
\* verified, and every new-comment, update-comment, delete-comment or
\* vote-comment event that is handled comes from such a socket and runs
\* with the user id and the role of its token
C19_HandledOnlyIfVerified ==
  /\ [](\A s \in Conns : sock[s].state = "open" => Verified(s))
  /\ [][\A p \in Procs :
          Handles(p)
          => /\ origin'[p] \in Conns
             /\ pc'[p].op \in {"create", "update", "delete", "vote"}
             /\ Verified(origin'[p])
             /\ pc'[p].user = sock[origin'[p]].token.id
             /\ Role(pc'[p].user) = sock[origin'[p]].token.role]_vars

\* s2 was refused with a token that does not verify and s1 with no token
\* at some time; s1 then connected as ann and a delete it sent is handled
C19_Witness ==
  \E p \in Procs :
    /\ origin[p] = "s1" /\ pc[p].op = "delete" /\ pc[p].user = "ann"
    /\ sock["s1"].state = "open"
    /\ sock["s2"].state = "refused" /\ sock["s2"].token = BadToken

\* ------------------------------------------------------ reconciler claims
\* client s handles the event e
Receives(s, e) ==
  inbox[s] # <<>> /\ e = Head(inbox[s]) /\ inbox'[s] = Tail(inbox[s])

\* C20: on comment-created, a comment without parentId becomes the first
\* top-level entry and the others follow unchanged; a comment whose parentId
\* is the id of a top-level entry becomes the last reply of that entry and
\* nothing else changes; with any other parentId the tree stays as it was
C20_CreatedMerged ==
  [][\A s \in Conns : \A e \in CreatedEvents :
       Receives(s, e)
       => LET prev == comments[s]
              next == comments'[s]
              comment == Entry(e.id, e.content, e.isEdited, e.voteScore, <<>>)
          IN IF e.parentId = Null
               THEN /\ Len(next) = Len(prev) + 1
                    /\ next[1] = comment
                    /\ \A i \in DOMAIN prev : next[i + 1] = prev[i]
             ELSE IF \E i \in DOMAIN prev : prev[i].id = e.parentId
               THEN /\ Len(next) = Len(prev)
                    /\ \A i \in DOMAIN prev :
                         IF prev[i].id = e.parentId
                           THEN /\ Len(next[i].replies) = Len(prev[i].replies) + 1
                                /\ next[i].replies[Len(next[i].replies)] = comment
                                /\ \A j \in DOMAIN prev[i].replies :
                                     next[i].replies[j] = prev[i].replies[j]
                                /\ [next[i] EXCEPT !.replies = <<>>]
                                     = [prev[i] EXCEPT !.replies = <<>>]
                           ELSE next[i] = prev[i]
             ELSE next = prev]_vars

\* one top-level post followed by one reply to it: the tree of s1 is one
\* top-level comment with one reply
C20_Witness ==
  /\ Len(comments["s1"]) = 1
  /\ comments["s1"][1].id = 1
  /\ Len(comments["s1"][1].replies) = 1
  /\ comments["s1"][1].replies[1].id = 2

\* the entries of seq whose id is not id, in the order they have in seq
Others(seq, id) == {i \in DOMAIN seq : seq[i].id # id}

\* out is seq without its entries of that id, the others in their order
Removed(seq, id, out) ==
  /\ Len(out) = Cardinality(Others(seq, id))
  /\ \A i \in Others(seq, id) :
       out[Cardinality({j \in Others(seq, id) : j <= i})] = seq[i]

\* C21: on comment-deleted, when the id is that of a top-level entry the
\* entry goes with the replies it holds and the other entries stay as they
\* are, in their order; otherwise the reply of that id goes from the replies
\* of its parent and nothing else changes; an id that is nowhere in the tree
\* leaves the tree as it was
C21_DeletedRemoved ==
  [][\A s \in Conns : \A e \in DeletedEvents :
       Receives(s, e)
       => LET prev == comments[s]
              next == comments'[s]
          IN IF \E i \in DOMAIN prev : prev[i].id = e.id
               THEN Removed(prev, e.id, next)
               ELSE /\ Len(next) = Len(prev)
                    /\ \A i \in DOMAIN prev :
                         /\ [next[i] EXCEPT !.replies = <<>>]
                              = [prev[i] EXCEPT !.replies = <<>>]
                         /\ Removed(prev[i].replies, e.id, next[i].replies)
                    /\ (\A i \in DOMAIN prev :
                          \A j \in DOMAIN prev[i].replies :
                            prev[i].replies[j].id # e.id) => next = prev]_vars

\* comment-deleted for comment 2 was handled last and the tree of s1 is
\* comment 1 alone, with no reply
C21_Witness ==
  /\ handled["s1"].type = "comment-deleted" /\ handled["s1"].id = 2
  /\ Len(comments["s1"]) = 1
  /\ comments["s1"][1].id = 1
  /\ comments["s1"][1].replies = <<>>

\* the ids of a tree: those of the top-level list in its order, each with
\* those of its replies in their order
Ids(tree) ==
  [i \in DOMAIN tree |->
     [id |-> tree[i].id,
      replies |-> [j \in DOMAIN tree[i].replies |-> tree[i].replies[j].id]]]

\* C22: on comment-updated, every comment with the id of the payload, top
\* level or reply, gets the content and isEdited of the payload; the order
\* of the top-level list and of every replies list and the ids in the tree
\* stay as they are, and an updated top-level comment keeps its replies
C22_UpdatedMerged ==
  [][\A s \in Conns : \A e \in UpdatedEvents :
       Receives(s, e)
       => LET prev == comments[s]
              next == comments'[s]
          IN /\ Ids(next) = Ids(prev)
             /\ \A i \in DOMAIN prev :
                  /\ prev[i].id = e.id
                       => /\ next[i].content = e.content
                          /\ next[i].isEdited = e.isEdited
                          /\ next[i].replies = prev[i].replies
                  /\ \A j \in DOMAIN prev[i].replies :
                       prev[i].replies[j].id = e.id
                         => /\ next[i].replies[j].content = e.content
                            /\ next[i].replies[j].isEdited = e.isEdited
                            /\ next[i].replies[j].replies = prev[i].replies[j].replies]_vars

\* comment-updated for the reply 2 of comment 1 was handled last: the reply
\* shows the new content as edited, its parent the old one
C22_Witness ==
  /\ handled["s1"].type = "comment-updated" /\ handled["s1"].id = 2
  /\ Len(comments["s1"]) = 1
  /\ comments["s1"][1].id = 1 /\ comments["s1"][1].content = Hi
  /\ Len(comments["s1"][1].replies) = 1
  /\ comments["s1"][1].replies[1].id = 2
  /\ comments["s1"][1].replies[1].content = Trim(Yo)
  /\ comments["s1"][1].replies[1].isEdited

\* C23: on comment-voted, the comments with the id of the payload get its
\* voteScore and keep everything else (content, isEdited, replies); every
\* other comment of the tree stays as it was
C23_VotedOverwritesScore ==
  [][\A s \in Conns : \A e \in VotedEvents :
       Receives(s, e)
       => LET prev == comments[s]
              next == comments'[s]
              Same(a, b) == [a EXCEPT !.voteScore = 0] = [b EXCEPT !.voteScore = 0]
          IN /\ Len(next) = Len(prev)
             /\ \A i \in DOMAIN prev :
                  IF prev[i].id = e.id
                    THEN /\ next[i].voteScore = e.voteScore
                         /\ Same(next[i], prev[i])
                    ELSE /\ Len(next[i].replies) = Len(prev[i].replies)
                         /\ [next[i] EXCEPT !.replies = <<>>]
                              = [prev[i] EXCEPT !.replies = <<>>]
                         /\ \A j \in DOMAIN prev[i].replies :
                              IF prev[i].replies[j].id = e.id
                                THEN /\ next[i].replies[j].voteScore = e.voteScore
                                     /\ Same(next[i].replies[j], prev[i].replies[j])
                                ELSE next[i].replies[j] = prev[i].replies[j]]_vars

\* comment-voted with score -1 for the edited comment 1 was handled last:
\* comment 1 shows -1 and is still the edited comment with its reply
C23_Witness ==
  /\ handled["s1"].type = "comment-voted" /\ handled["s1"].id = 1
  /\ Len(comments["s1"]) = 1
  /\ comments["s1"][1].id = 1
  /\ comments["s1"][1].voteScore = -1
  /\ comments["s1"][1].content = Trim(Yo) /\ comments["s1"][1].isEdited
  /\ Len(comments["s1"][1].replies) = 1

\* C24: a comment-updated or comment-voted event handled once more leaves
\* the tree as the first handling left it, and no comment-updated or
\* comment-voted event, in whatever order they come, changes the ids of the
\* tree or their order
C24_MergeIdempotent ==
  [][\A s \in Conns : \A e \in UpdatedEvents \cup VotedEvents :
       Receives(s, e)
       => /\ Handle(comments'[s], e) = comments'[s]
          /\ Ids(comments'[s]) = Ids(comments[s])]_vars

\* comment-voted with score -1 for the edited comment 1 was handled and the
\* same event came again and is about to be handled
C24_Witness ==
  /\ handled["s1"].type = "comment-voted"
  /\ inbox["s1"] = <<handled["s1"]>>
  /\ Len(comments["s1"]) = 1
  /\ comments["s1"][1].id = handled["s1"].id
  /\ comments["s1"][1].voteScore = -1 /\ handled["s1"].voteScore = -1
  /\ comments["s1"][1].isEdited

\* --------------------------------------------------------- client claims
\* C25: a mutation submitted while the client's socket is not connected
\* goes to the REST controller: none is kept for the socket, and no socket
\* handler of the server runs for one
C25_RestWhenNotConnected ==
  [][\A s \in Conns :
       /\ Len(client'[s].sendBuffer) <= Len(client[s].sendBuffer)
       /\ \A p \in Procs :
            Handles(p) /\ origin'[p] = s
              => client'[s].sendBuffer = client[s].sendBuffer]_vars

\* C26: a client that is connected again and back in the room of its blog
\* holds the list view of the store once every request has ended and
\* nothing is on its way to a client: what was broadcast while it was away
\* has been made up for by a new snapshot
C26_GapClosed ==
  \A s \in Conns :
    (/\ sock[s].state = "open" /\ blogId \in sock[s].rooms
     /\ client[s].sendBuffer = <<>>
     /\ Quiescent)
    => comments[s] = ListView(store, blogId)

\* C27: no id is twice in the top-level list of a client, or twice in one
\* replies list
C27_NoDuplicateIds ==
  \A s \in Conns :
    LET Distinct(seq) == \A i, j \in DOMAIN seq : seq[i].id = seq[j].id => i = j
    IN /\ Distinct(comments[s])
       /\ \A i \in DOMAIN comments[s] : Distinct(comments[s][i].replies)

\* ------------------------------------------------------ concurrency claims
\* handler p runs the save() of an update or of a vote
Writes(p) ==
  pc[p].phase \in {"updSave", "voteSave"} /\ pc'[p].phase = "respond"

\* C28: a comment that was deleted is never in the store again; an update
\* or a vote that found the comment and saves after the delete changes
\* nothing in the store and fails, and what it sends is comment-error to
\* its own socket: no client gets a comment-updated or comment-voted event
C28_DeletedStaysDeleted ==
  [][/\ \A id \in CommentIds :
          (id < nextId /\ ~Exists(store, id)) => ~Exists(store', id)
     /\ \A p \in Procs :
          /\ (Writes(p) /\ ~Exists(store, pc[p].id))
               => /\ store' = store
                  /\ pc'[p].status = "failed"
                  /\ pc'[p].event = "none"
          /\ (Emits(p) /\ pc[p].status = "failed")
               => \A s \in Conns :
                    \/ inbox'[s] = inbox[s]
                    \/ /\ s = origin[p]
                       /\ inbox'[s] = Append(inbox[s], CommentError)]_vars

\* bob's update of comment 1 found it, his delete of comment 1 then removed
\* it with its reply, and the update has failed at its save
C28_Witness ==
  \E p, q \in Procs :
    /\ pc[p].op = "update" /\ pc[p].id = 1 /\ pc[p].via = "socket"
    /\ pc[p].phase = "respond" /\ pc[p].status = "failed"
    /\ pc[q].op = "delete" /\ pc[q].id = 1 /\ pc[q].phase = "respond"
    /\ pc[q].status = "ok"
    /\ store = << >>

\* C29: when the votes on comment 1 have all ended and every event has been
\* received, each client in the room shows for comment 1 the score of the
\* stored comment: the comment-voted event that came last carried it
C29_LastScoreIsStored ==
  (Quiescent /\ Exists(store, 1))
  => \A s \in Conns :
       (sock[s].state = "open" /\ store[1].blog \in sock[s].rooms)
       => \A i \in DOMAIN comments[s] :
            comments[s][i].id = 1 => comments[s][i].voteScore = VoteScore(store[1])

\* C30: the event a handler emits about a comment of a blog goes to the
\* sockets that are in the room of that blog at that moment and to no
\* other: a socket that is not in the room, the submitting one included,
\* gets nothing.  join-blog puts the socket in the room and leave-blog takes
\* it out, and either of them sent again changes nothing
C30_RoomIsolation ==
  [][/\ \A p \in Procs :
          (Emits(p) /\ pc[p].event # "none")
          => \A s \in Conns :
               IF sock[s].state = "open" /\ pc[p].blog \in sock[s].rooms
                 THEN inbox'[s] = Append(inbox[s], Payload(pc[p]))
                 ELSE inbox'[s] = inbox[s]
     /\ \A s \in Conns, b \in BlogIds :
          /\ joinBlog(s, b) => b \in sock'[s].rooms
          /\ leaveBlog(s, b) => b \notin sock'[s].rooms
          /\ (joinBlog(s, b) /\ b \in sock[s].rooms) => sock' = sock
          /\ (leaveBlog(s, b) /\ b \notin sock[s].rooms) => sock' = sock]_vars

\* ann's socket s1 is in the room of another blog only; her upvote of
\* comment 1 of blog b1 was broadcast: bob's socket s2, in room b1, has the
\* event and s1 has none
C30_Witness ==
  /\ sock["s1"].state = "open" /\ sock["s1"].rooms = {"bX"}
  /\ sock["s2"].state = "open" /\ "b1" \in sock["s2"].rooms
  /\ Exists(store, 1) /\ store[1].upvotes = <<"ann">>
  /\ \A p \in Procs : pc[p].phase = "idle"
  /\ inbox["s1"] = <<>> /\ handled["s1"] = NoEvent
  /\ Len(inbox["s2"]) = 1 /\ inbox["s2"][1].type = "comment-voted"
====
